---- MODULE Spec2Model ----
(***************************************************************************)
(* claude-block-checker: session-block segmentation (src/src/blocks.rs)    *)
(* and the burn-rate projection of check_profile (src/src/main.rs).        *)
(*                                                                         *)
(* Time is an integer count of milliseconds since 00:00:00.000 of the      *)
(* model's first day (chrono's DateTime<Utc> at millisecond resolution).   *)
(* Token counters are u64 in the code; every value of the model stays far  *)
(* below 2^53, where the f64 arithmetic of check_profile is exact.         *)
(* An Option<T> is a sequence: None is <<>> and Some(x) is <<x>>.          *)
(***************************************************************************)
EXTENDS Integers, Sequences, FiniteSets

VARIABLES
    loaded,                 \* entries collected from the JSONL files, in collection order
    caller,                 \* who called identify_session_blocks
    entries,                \* the argument of identify_session_blocks
    pc,                     \* position in the program
    idx,                    \* position of the for loop over entries
    now,                    \* Option: Utc::now() read by identify_session_blocks
    current_block_start,    \* Option<DateTime<Utc>>
    current_block_entries,  \* Vec<UsageEntry>
    blocks,                 \* Vec<SessionBlock>
    members,                \* for each pushed block, the entries create_block folded
    active_block,           \* Option<SessionBlock> of check_profile
    now_check,              \* Option: Utc::now() read by check_profile
    usage,                  \* Option<ProfileUsage>: what check_profile returns
    divisors,               \* the divisors check_profile's burn-rate step divided by
    \* check_all_profiles
    json,                   \* the --json flag
    dir_listing,            \* fs::read_dir(profiles_dir), in the order the OS lists it
    profiles,               \* Vec<(String, PathBuf)>: the profile names
    apc,                    \* position in check_all_profiles
    wstate,                 \* per profile index, the state of its rayon worker
    slots,                  \* per profile index, what its worker returned
    finished,               \* the profile indexes in the order their workers finished
    results,                \* Vec<(String, Result<ProfileUsage>)>
    mi,                     \* position of the merge loop over results
    all_usage,              \* Vec<ProfileUsage>
    all_total_tokens,       \* total_tokens of check_all_profiles
    all_total_cost,         \* total_cost of check_all_profiles
    active_count,
    summary,                \* Option: the summary of the report
    \* load_usage_entries
    files,                  \* jsonl_files: the files WalkDir found, with their content
    lpc,                    \* position in load_usage_entries
    fstate,                 \* per file index, the state of its rayon worker
    fresults,               \* per file index, what load_jsonl_file returned
    load_out                \* Option: the Vec<UsageEntry> load_usage_entries returns

vars == <<loaded, caller, entries, pc, idx, now, current_block_start,
          current_block_entries, blocks, members, active_block, now_check, usage,
          divisors, json, dir_listing, profiles, apc, wstate, slots, finished,
          results, mi, all_usage, all_total_tokens, all_total_cost, active_count,
          summary, files, lpc, fstate, fresults, load_out>>

loadVars == <<files, lpc, fstate, fresults, load_out>>

allVars == <<json, dir_listing, profiles, apc, wstate, slots, finished, results, mi,
             all_usage, all_total_tokens, all_total_cost, active_count, summary>>

----------------------------------------------------------------------------
(* Bounds and units *)

MaxEntries == 3
MaxDirEntries == 3
MaxLines == 3

MS_PER_SECOND == 1000
MS_PER_MINUTE == 60 * MS_PER_SECOND
MS_PER_HOUR == 60 * MS_PER_MINUTE

SESSION_DURATION_HOURS == 5

\* models::CLAUDE_TOKEN_LIMIT: referenced by main.rs, its value is not in the
\* sources at hand; the value is the budget of the specification's example.
CLAUDE_TOKEN_LIMIT == 1000

None == <<>>
Some(x) == <<x>>
IsSome(o) == o # <<>>
Unwrap(o) == o[1]

\* hh:mm:ss.mmm of the model's first day
At(h, m, s, ms) == h * MS_PER_HOUR + m * MS_PER_MINUTE + s * MS_PER_SECOND + ms

\* Timestamps the entries are drawn from.
EntryTimes ==
    { At(10, 0, 0, 0), At(10, 35, 45, 500), At(14, 59, 59, 999),
      At(15, 0, 0, 0), At(15, 1, 0, 0), At(20, 10, 0, 0) }

\* Token counters, the entry's own total_tokens, cost (micro-dollars) and model.
\* The second kind carries a total_tokens that is not the sum of its counters.
EntryKinds ==
    { [input_tokens |-> 100, output_tokens |-> 50, cache_creation_tokens |-> 0,
       cache_read_tokens |-> 0, total_tokens |-> 150, cost |-> 1000,
       model |-> "claude-3-5-sonnet"],
      [input_tokens |-> 300, output_tokens |-> 200, cache_creation_tokens |-> 60,
       cache_read_tokens |-> 40, total_tokens |-> 7, cost |-> 2000,
       model |-> "claude-3-opus"] }

UsageEntry(t, k) ==
    [timestamp |-> t,
     input_tokens |-> k.input_tokens,
     output_tokens |-> k.output_tokens,
     cache_creation_tokens |-> k.cache_creation_tokens,
     cache_read_tokens |-> k.cache_read_tokens,
     total_tokens |-> k.total_tokens,
     cost |-> k.cost,
     model |-> k.model]

UsageEntries == { UsageEntry(t, k) : t \in EntryTimes, k \in EntryKinds }

\* Instants Utc::now() returns in identify_session_blocks.
NowTimes ==
    { At(9, 59, 59, 999), At(10, 0, 30, 0), At(10, 1, 30, 0), At(11, 0, 0, 0),
      At(13, 20, 0, 0), At(14, 59, 59, 999), At(15, 0, 0, 0), At(15, 30, 0, 0) }

\* Time that passes between the two Utc::now() reads of one check_profile.
NowDelays == { 0, 1, 90 * MS_PER_SECOND }

BoundedSeqs(S, n) == UNION { [1..k -> S] : k \in 0..n }

----------------------------------------------------------------------------
(* chrono *)

hour_index(t) == t \div MS_PER_HOUR
minute(t) == (t % MS_PER_HOUR) \div MS_PER_MINUTE
second(t) == (t % MS_PER_MINUTE) \div MS_PER_SECOND
subsec(t) == t % MS_PER_SECOND

with_minute(t, m) == t - minute(t) * MS_PER_MINUTE + m * MS_PER_MINUTE
with_second(t, s) == t - second(t) * MS_PER_SECOND + s * MS_PER_SECOND
with_nanosecond(t, n) == t - subsec(t) + n

\* Duration::hours
DurationHours(h) == h * MS_PER_HOUR

\* Duration::num_minutes: whole minutes, truncated toward zero
num_minutes(d) ==
    IF d >= 0 THEN d \div MS_PER_MINUTE ELSE -((-d) \div MS_PER_MINUTE)

----------------------------------------------------------------------------
(* blocks.rs *)

floor_to_hour_keeps_subsec(timestamp) ==
    with_second(with_minute(timestamp, 0), 0)

floor_to_hour(timestamp) ==
    with_nanosecond(with_second(with_minute(timestamp, 0), 0), 0)

RECURSIVE SumField(_, _)
SumField(es, f) ==
    IF es = <<>> THEN 0 ELSE es[1][f] + SumField(Tail(es), f)

create_block_trusts_entry_totals(start_time, es, at) ==
    LET end_time == start_time + DurationHours(SESSION_DURATION_HOURS)
    IN  [start_time |-> start_time,
         end_time |-> end_time,
         is_active |-> (at >= start_time /\ at < end_time),
         input_tokens |-> SumField(es, "input_tokens"),
         output_tokens |-> SumField(es, "output_tokens"),
         cache_creation_tokens |-> SumField(es, "cache_creation_tokens"),
         cache_read_tokens |-> SumField(es, "cache_read_tokens"),
         total_tokens |-> SumField(es, "total_tokens"),
         total_cost |-> SumField(es, "cost"),
         models |-> { es[i].model : i \in 1..Len(es) },
         entry_count |-> Len(es),
         burn_rate |-> None]

create_block(start_time, es, at) ==
    LET end_time == start_time + DurationHours(SESSION_DURATION_HOURS)
        input_tokens == SumField(es, "input_tokens")
        output_tokens == SumField(es, "output_tokens")
        cache_creation_tokens == SumField(es, "cache_creation_tokens")
        cache_read_tokens == SumField(es, "cache_read_tokens")
    IN  [start_time |-> start_time,
         end_time |-> end_time,
         is_active |-> (at >= start_time /\ at < end_time),
         input_tokens |-> input_tokens,
         output_tokens |-> output_tokens,
         cache_creation_tokens |-> cache_creation_tokens,
         cache_read_tokens |-> cache_read_tokens,
         total_tokens |-> input_tokens + output_tokens
                          + cache_creation_tokens + cache_read_tokens,
         total_cost |-> SumField(es, "cost"),
         models |-> { es[i].model : i \in 1..Len(es) },
         entry_count |-> Len(es),
         burn_rate |-> None]

\* line 24: the entry belongs to the open block
in_current_block_inclusive(timestamp, block_start) ==
    timestamp - block_start <= DurationHours(SESSION_DURATION_HOURS)

in_current_block_one_hour_short(timestamp, block_start) ==
    timestamp - block_start < DurationHours(SESSION_DURATION_HOURS - 1)

in_current_block(timestamp, block_start) ==
    timestamp - block_start < DurationHours(SESSION_DURATION_HOURS)

\* line 34: vec![entry], the entries of the block the entry opens
new_block_entries_unseeded(entry) == <<>>

new_block_entries(entry) == <<entry>>

----------------------------------------------------------------------------
(* parser.rs *)

\* entries.sort_by(|a, b| a.timestamp.cmp(&b.timestamp)): a stable sort
RECURSIVE InsertByTimestamp(_, _)
InsertByTimestamp(e, s) ==
    IF s = <<>> THEN <<e>>
    ELSE IF e.timestamp < s[1].timestamp THEN <<e>> \o s
    ELSE <<s[1]>> \o InsertByTimestamp(e, Tail(s))

RECURSIVE sort_by_timestamp(_)
sort_by_timestamp(s) ==
    IF s = <<>> THEN <<>>
    ELSE InsertByTimestamp(s[Len(s)], sort_by_timestamp(SubSeq(s, 1, Len(s) - 1)))

----------------------------------------------------------------------------
(* main.rs: the burn rate of check_profile *)

\* u64::saturating_sub
saturating_sub(a, b) == IF a >= b THEN a - b ELSE 0

\* line 294: (now - block.start_time).num_minutes()
elapsed_minutes(block, at) == num_minutes(at - block.start_time)

\* line 295: elapsed > 1.0
enough_elapsed_ge1(elapsed) == elapsed >= 1

enough_elapsed(elapsed) == elapsed > 1

\* line 296: (block.total_tokens as f64 / elapsed) as u64
tokens_per_minute_ceil(total_tokens, elapsed) ==
    (total_tokens + elapsed - 1) \div elapsed

tokens_per_minute(total_tokens, elapsed) == total_tokens \div elapsed

\* line 299: (5.0 * 60.0) - elapsed
remaining_minutes(elapsed) == 5 * 60 - elapsed

\* lines 300-304
projected_tokens_always_extrapolates(total_tokens, tpm, elapsed) ==
    total_tokens + tpm * remaining_minutes(elapsed)

projected_tokens(total_tokens, tpm, elapsed) ==
    IF remaining_minutes(elapsed) > 0
    THEN total_tokens + tpm * remaining_minutes(elapsed)
    ELSE total_tokens

\* line 312: tokens_per_minute > 0
has_rate_or_zero(tpm) == tpm >= 0

has_rate(tpm) == tpm > 0

\* lines 312-331, without the human_readable rendering
time_until_limit_unsaturated(total_tokens, tpm) ==
    IF has_rate(tpm)
    THEN Some([minutes |-> (CLAUDE_TOKEN_LIMIT - total_tokens) \div tpm])
    ELSE None

time_until_limit(total_tokens, tpm) ==
    IF has_rate(tpm)
    THEN Some([minutes |-> saturating_sub(CLAUDE_TOKEN_LIMIT, total_tokens) \div tpm])
    ELSE None

\* lines 293-341: the BurnRate of the active block, or None; the f64 fields
\* cost_per_hour and projected_cost are not modelled
burn_rate_of(block, at) ==
    LET elapsed == elapsed_minutes(block, at)
        tpm == tokens_per_minute(block.total_tokens, elapsed)
    IN  IF enough_elapsed(elapsed)
        THEN Some([elapsed_minutes |-> elapsed,
                   tokens_per_minute |-> tpm,
                   projected_tokens |-> projected_tokens(block.total_tokens, tpm, elapsed),
                   time_until_limit |-> time_until_limit(block.total_tokens, tpm)])
        ELSE None

\* the divisors of lines 296 (elapsed, an f64 division) and 314
\* (tokens_per_minute, a u64 division, which panics on zero), in order
burn_rate_divisors(block, at) ==
    LET elapsed == elapsed_minutes(block, at)
    IN  IF enough_elapsed(elapsed)
        THEN <<elapsed>> \o
             (IF has_rate(tokens_per_minute(block.total_tokens, elapsed))
              THEN <<tokens_per_minute(block.total_tokens, elapsed)>>
              ELSE <<>>)
        ELSE <<>>

\* lines 288-289: blocks.into_iter().find(|block| block.is_active)
find_active_last_only(bs) ==
    IF bs # <<>> /\ bs[Len(bs)].is_active THEN Some(bs[Len(bs)]) ELSE None

find_active_takes_first(bs) ==
    IF bs # <<>> THEN Some(bs[1]) ELSE None

find_active(bs) ==
    IF \E i \in 1..Len(bs) : bs[i].is_active
    THEN LET i == CHOOSE i \in 1..Len(bs) :
                      bs[i].is_active /\ \A j \in 1..(i - 1) : ~bs[j].is_active
         IN  Some(bs[i])
    ELSE None

\* the ProfileUsage of a profile without an active block
EmptyUsage ==
    [active_block |-> None, total_tokens |-> 0, total_cost |-> 0,
     models_used |-> {}, minutes_until_limit |-> None]

\* lines 344-366
profile_usage(ab) ==
    IF IsSome(ab)
    THEN LET block == Unwrap(ab)
         IN  [active_block |-> ab,
              total_tokens |-> block.total_tokens,
              total_cost |-> block.total_cost,
              models_used |-> block.models,
              minutes_until_limit |->
                  IF IsSome(block.burn_rate)
                     /\ IsSome(Unwrap(block.burn_rate).time_until_limit)
                  THEN Some(Unwrap(Unwrap(block.burn_rate).time_until_limit).minutes)
                  ELSE None]
    ELSE EmptyUsage

----------------------------------------------------------------------------
(* The state machine *)

\* check_profile has not started
CheckIdle ==
    /\ caller = "none"
    /\ entries = <<>>
    /\ pc = "start"
    /\ idx = 1
    /\ now = None
    /\ current_block_start = None
    /\ current_block_entries = <<>>
    /\ blocks = <<>>
    /\ members = <<>>
    /\ active_block = None
    /\ now_check = None
    /\ usage = None
    /\ divisors = <<>>

\* check_all_profiles is not running
AllIdle ==
    /\ json = FALSE
    /\ dir_listing = <<>>
    /\ profiles = <<>>
    /\ apc = "off"
    /\ wstate = <<>>
    /\ slots = <<>>
    /\ finished = <<>>
    /\ results = <<>>
    /\ mi = 1
    /\ all_usage = <<>>
    /\ all_total_tokens = 0
    /\ all_total_cost = 0
    /\ active_count = 0
    /\ summary = None

\* load_usage_entries is not running
LoadIdle ==
    /\ files = <<>>
    /\ lpc = "off"
    /\ fstate = <<>>
    /\ fresults = <<>>
    /\ load_out = None

Init ==
    /\ loaded \in BoundedSeqs(UsageEntries, MaxEntries)
    /\ CheckIdle
    /\ AllIdle
    /\ LoadIdle

\* check_profile, lines 257-268: the profile has no projects directory
ProjectsDirMissing ==
    /\ pc = "start"
    /\ loaded = <<>>
    /\ caller' = "check_profile"
    /\ usage' = Some(EmptyUsage)
    /\ pc' = "done"
    /\ UNCHANGED <<loaded, entries, idx, now, current_block_start,
                   current_block_entries, blocks, members, active_block, now_check>>
    /\ UNCHANGED <<divisors, allVars, loadVars>>

\* check_profile, lines 271-285: load_usage_entries (which sorts), the early
\* return on no entries, and the call of identify_session_blocks
LoadUsageEntries ==
    /\ pc = "start"
    /\ caller' = "check_profile"
    /\ entries' = sort_by_timestamp(loaded)
    /\ IF loaded = <<>>
       THEN usage' = Some(EmptyUsage) /\ pc' = "done"
       ELSE usage' = usage /\ pc' = "identify"
    /\ UNCHANGED <<loaded, idx, now, current_block_start,
                   current_block_entries, blocks, members, active_block, now_check>>
    /\ UNCHANGED <<divisors, allVars, loadVars>>

\* identify_session_blocks is public: a caller hands it any sequence
CallIdentify ==
    /\ pc = "start"
    /\ caller' = "direct"
    /\ entries' = loaded
    /\ pc' = "identify"
    /\ UNCHANGED <<loaded, idx, now, current_block_start, current_block_entries,
                   blocks, members, active_block, now_check, usage>>
    /\ UNCHANGED <<divisors, allVars, loadVars>>

\* identify_session_blocks, lines 10-17
IdentifyBegin ==
    /\ pc = "identify"
    /\ IF entries = <<>>
       THEN now' = now /\ pc' = "returned"
       ELSE (\E t \in NowTimes : now' = Some(t)) /\ pc' = "loop"
    /\ UNCHANGED <<loaded, caller, entries, idx, current_block_start,
                   current_block_entries, blocks, members, active_block,
                   now_check, usage>>
    /\ UNCHANGED <<divisors, allVars, loadVars>>

\* identify_session_blocks, lines 19-41: one iteration of the for loop
LoopStep ==
    /\ pc = "loop"
    /\ idx <= Len(entries)
    /\ LET entry == entries[idx] IN
       IF IsSome(current_block_start)
       THEN LET block_start == Unwrap(current_block_start) IN
            IF in_current_block(entry.timestamp, block_start)
            THEN /\ current_block_entries' = Append(current_block_entries, entry)
                 /\ UNCHANGED <<current_block_start, blocks, members>>
            ELSE /\ IF current_block_entries # <<>>
                    THEN /\ blocks' = Append(blocks,
                                create_block(block_start, current_block_entries, Unwrap(now)))
                         /\ members' = Append(members, current_block_entries)
                    ELSE UNCHANGED <<blocks, members>>
                 /\ current_block_start' = Some(floor_to_hour(entry.timestamp))
                 /\ current_block_entries' = new_block_entries(entry)
       ELSE /\ current_block_start' = Some(floor_to_hour(entry.timestamp))
            /\ current_block_entries' = Append(current_block_entries, entry)
            /\ UNCHANGED <<blocks, members>>
    /\ idx' = idx + 1
    /\ UNCHANGED <<loaded, caller, entries, pc, now, active_block, now_check, usage>>
    /\ UNCHANGED <<divisors, allVars, loadVars>>

\* identify_session_blocks, lines 43-50: close the final block and return
CloseFinal ==
    /\ pc = "loop"
    /\ idx > Len(entries)
    /\ IF IsSome(current_block_start) /\ current_block_entries # <<>>
       THEN /\ blocks' = Append(blocks,
                   create_block(Unwrap(current_block_start), current_block_entries,
                                Unwrap(now)))
            /\ members' = Append(members, current_block_entries)
       ELSE UNCHANGED <<blocks, members>>
    /\ current_block_entries' = <<>>
    /\ pc' = "returned"
    /\ UNCHANGED <<loaded, caller, entries, idx, now, current_block_start,
                   active_block, now_check, usage>>
    /\ UNCHANGED <<divisors, allVars, loadVars>>

\* check_profile, lines 288-289
FindActive ==
    /\ pc = "returned"
    /\ caller = "check_profile"
    /\ active_block' = find_active(blocks)
    /\ pc' = "burn"
    /\ UNCHANGED <<loaded, caller, entries, idx, now, current_block_start,
                   current_block_entries, blocks, members, now_check, usage>>
    /\ UNCHANGED <<divisors, allVars, loadVars>>

\* check_profile, lines 292-342: the clock is read again, after the one of
\* identify_session_blocks
BurnRate ==
    /\ pc = "burn"
    /\ IF IsSome(active_block)
       THEN \E d \in NowDelays :
               LET at == Unwrap(now) + d
                   divs == burn_rate_divisors(Unwrap(active_block), at)
               IN  /\ now_check' = Some(at)
                   /\ divisors' = divs
                   /\ IF \E k \in 1..Len(divs) : k > 1 /\ divs[k] = 0
                      THEN \* attempt to divide by zero: the thread panics
                           /\ pc' = "panicked"
                           /\ UNCHANGED active_block
                      ELSE /\ pc' = "result"
                           /\ active_block' =
                                  Some([Unwrap(active_block) EXCEPT
                                           !.burn_rate =
                                               burn_rate_of(Unwrap(active_block), at)])
       ELSE /\ pc' = "result"
            /\ UNCHANGED <<active_block, now_check, divisors>>
    /\ UNCHANGED <<loaded, caller, entries, idx, now, current_block_start,
                   current_block_entries, blocks, members, usage>>
    /\ UNCHANGED <<allVars, loadVars>>

\* check_profile, lines 344-366
Result ==
    /\ pc = "result"
    /\ usage' = Some(profile_usage(active_block))
    /\ pc' = "done"
    /\ UNCHANGED <<loaded, caller, entries, idx, now, current_block_start,
                   current_block_entries, blocks, members, active_block, now_check>>
    /\ UNCHANGED <<divisors, allVars, loadVars>>

Next ==
    \/ ProjectsDirMissing
    \/ LoadUsageEntries
    \/ CallIdentify
    \/ IdentifyBegin
    \/ LoopStep
    \/ CloseFinal
    \/ FindActive
    \/ BurnRate
    \/ Result

Spec == Init /\ [][Next]_vars

----------------------------------------------------------------------------
(* main.rs: check_all_profiles *)

\* The names fs::read_dir may list, in String order.
NameOrder == <<".hidden", "notes.txt", "personal", "team", "work">>
DirNames == { NameOrder[i] : i \in 1..Len(NameOrder) }

\* line 151: path.is_dir()
is_dir(name) == name # "notes.txt"

\* line 153: name.starts_with('.')
starts_with_dot(name) == name = ".hidden"

\* a.0.cmp(&b.0) == Ordering::Less
name_lt(a, b) ==
    (CHOOSE i \in 1..Len(NameOrder) : NameOrder[i] = a)
        < (CHOOSE i \in 1..Len(NameOrder) : NameOrder[i] = b)

\* lines 148-158: the directories whose name does not start with '.'
RECURSIVE profile_dirs(_)
profile_dirs(listing) ==
    IF listing = <<>> THEN <<>>
    ELSE IF is_dir(listing[1]) /\ ~starts_with_dot(listing[1])
         THEN <<listing[1]>> \o profile_dirs(Tail(listing))
         ELSE profile_dirs(Tail(listing))

\* line 160: profiles.sort_by(|a, b| a.0.cmp(&b.0))
RECURSIVE InsertByName(_, _)
InsertByName(n, s) ==
    IF s = <<>> THEN <<n>>
    ELSE IF name_lt(n, s[1]) THEN <<n>> \o s
    ELSE <<s[1]>> \o InsertByName(n, Tail(s))

RECURSIVE sort_by_name(_)
sort_by_name(s) ==
    IF s = <<>> THEN <<>>
    ELSE InsertByName(s[Len(s)], sort_by_name(SubSeq(s, 1, Len(s) - 1)))

\* Result<ProfileUsage>: Ok(usage) is <<usage>>, Err(_) is <<>>
Ok(u) == <<u>>
Err == <<>>
is_ok(r) == r # <<>>

\* ProfileUsage with its name field
named_usage(name, u) ==
    [name |-> name,
     active_block |-> u.active_block,
     total_tokens |-> u.total_tokens,
     total_cost |-> u.total_cost,
     models_used |-> u.models_used,
     minutes_until_limit |-> u.minutes_until_limit]

\* what check_profile returns for a profile whose entries es all fall into one
\* block, with the clock at t in identify_session_blocks and in check_profile
usage_of(es, t) ==
    LET block == create_block(floor_to_hour(es[1].timestamp), es, t)
    IN  profile_usage(Some([block EXCEPT !.burn_rate = burn_rate_of(block, t)]))

SonnetEntry ==
    UsageEntry(At(10, 0, 0, 0),
               CHOOSE k \in EntryKinds : k.model = "claude-3-5-sonnet")
OpusEntry ==
    UsageEntry(At(10, 0, 0, 0), CHOOSE k \in EntryKinds : k.model = "claude-3-opus")

\* The usages the workers' check_profile calls return: no active block; an
\* active block too young for a BurnRate; active blocks 425, 40 and 0 minutes
\* from the limit.
UsageOutcomes ==
    { EmptyUsage,
      usage_of(<<SonnetEntry>>, At(10, 0, 30, 0)),
      usage_of(<<SonnetEntry>>, At(11, 0, 0, 0)),
      usage_of(<<OpusEntry>>, At(11, 0, 0, 0)),
      usage_of(<<OpusEntry, OpusEntry>>, At(11, 0, 0, 0)) }

\* The Result a worker returns for profile name. check_profile's signature
\* allows Err; the merge loop has an arm for it.
WorkerResults(name) ==
    { Err } \cup { Ok(named_usage(name, u)) : u \in UsageOutcomes }

\* lines 169-174: par_iter().map().collect() keeps the order of profiles
collect_in_finish_order(ps, sl, fin) ==
    [k \in 1..Len(ps) |-> <<ps[fin[k]], sl[fin[k]]>>]

collect(ps, sl, fin) ==
    [i \in 1..Len(ps) |-> <<ps[i], sl[i]>>]

\* line 180: usage.active_block.is_some()
counts_as_active(u) == IsSome(u.active_block)

\* lines 202-204: filter(minutes_until_limit.is_some()).max_by_key(..), which
\* returns the last of several maximal elements
best_profile_takes_first(us) ==
    LET cand == { i \in 1..Len(us) : IsSome(us[i].minutes_until_limit) }
    IN  IF cand = {} THEN None
        ELSE Some(us[CHOOSE i \in cand : \A j \in cand : i <= j])

best_profile(us) ==
    LET cand == { i \in 1..Len(us) : IsSome(us[i].minutes_until_limit) }
        key(i) == Unwrap(us[i].minutes_until_limit)
    IN  IF cand = {} THEN None
        ELSE Some(us[CHOOSE i \in cand :
                         \A j \in cand : key(j) < key(i) \/ (key(j) = key(i) /\ j <= i)])

\* lines 206-251: the summary; the text report shows the recommended profile
\* only when some profile is active
summary_of(js, us, count, tokens, cost) ==
    LET best == best_profile(us)
    IN  [total_profiles |-> Len(us),
         active_profiles |-> count,
         total_tokens |-> tokens,
         total_cost |-> cost,
         recommended_profile |->
             IF IsSome(best) /\ (js \/ count > 0)
             THEN Some([name |-> Unwrap(best).name,
                        minutes_until_limit |-> Unwrap(best).minutes_until_limit])
             ELSE None]

InjectiveSeqs(S, n) ==
    { s \in BoundedSeqs(S, n) : \A i, j \in 1..Len(s) : i # j => s[i] # s[j] }

InitAll ==
    /\ loaded = <<>>
    /\ CheckIdle
    /\ json \in BOOLEAN
    /\ dir_listing \in InjectiveSeqs(DirNames, MaxDirEntries)
    /\ profiles = <<>>
    /\ apc = "list"
    /\ wstate = <<>>
    /\ slots = <<>>
    /\ finished = <<>>
    /\ results = <<>>
    /\ mi = 1
    /\ all_usage = <<>>
    /\ all_total_tokens = 0
    /\ all_total_cost = 0
    /\ active_count = 0
    /\ summary = None
    /\ LoadIdle

checkVars == <<loaded, caller, entries, pc, idx, now, current_block_start,
               current_block_entries, blocks, members, active_block, now_check,
               usage, divisors>>

\* lines 140-160: the counters, the listing of the profiles, the sort
ListProfiles ==
    /\ apc = "list"
    /\ profiles' = sort_by_name(profile_dirs(dir_listing))
    /\ wstate' = [i \in 1..Len(profiles') |-> "idle"]
    /\ slots' = [i \in 1..Len(profiles') |-> Err]
    /\ apc' = "workers"
    /\ UNCHANGED <<json, dir_listing, finished, results, mi, all_usage,
                   all_total_tokens, all_total_cost, active_count, summary>>
    /\ UNCHANGED <<checkVars, loadVars>>

\* lines 169-173: a rayon worker takes up profile i
WorkerStart(i) ==
    /\ apc = "workers"
    /\ wstate[i] = "idle"
    /\ wstate' = [wstate EXCEPT ![i] = "running"]
    /\ UNCHANGED <<json, dir_listing, profiles, apc, slots, finished, results, mi,
                   all_usage, all_total_tokens, all_total_cost, active_count, summary>>
    /\ UNCHANGED <<checkVars, loadVars>>

\* lines 171-173: check_profile returns in the worker of profile i
WorkerFinish(i) ==
    /\ apc = "workers"
    /\ wstate[i] = "running"
    /\ \E r \in WorkerResults(profiles[i]) : slots' = [slots EXCEPT ![i] = r]
    /\ wstate' = [wstate EXCEPT ![i] = "done"]
    /\ finished' = Append(finished, i)
    /\ UNCHANGED <<json, dir_listing, profiles, apc, results, mi, all_usage,
                   all_total_tokens, all_total_cost, active_count, summary>>
    /\ UNCHANGED <<checkVars, loadVars>>

\* line 174: collect() returns once every worker has returned
Collect ==
    /\ apc = "workers"
    /\ \A i \in 1..Len(profiles) : wstate[i] = "done"
    /\ results' = collect(profiles, slots, finished)
    /\ mi' = 1
    /\ apc' = "merge"
    /\ UNCHANGED <<json, dir_listing, profiles, wstate, slots, finished, all_usage,
                   all_total_tokens, all_total_cost, active_count, summary>>
    /\ UNCHANGED <<checkVars, loadVars>>

\* lines 177-199: one iteration of the loop over results
MergeStep ==
    /\ apc = "merge"
    /\ mi <= Len(results)
    /\ LET result == results[mi][2] IN
       IF is_ok(result)
       THEN LET u == Unwrap(result) IN
            /\ IF counts_as_active(u)
               THEN /\ active_count' = active_count + 1
                    /\ all_total_tokens' = all_total_tokens + u.total_tokens
                    /\ all_total_cost' = all_total_cost + u.total_cost
               ELSE UNCHANGED <<active_count, all_total_tokens, all_total_cost>>
            /\ all_usage' = Append(all_usage, u)
       ELSE UNCHANGED <<active_count, all_total_tokens, all_total_cost, all_usage>>
    /\ mi' = mi + 1
    /\ UNCHANGED <<json, dir_listing, profiles, apc, wstate, slots, finished,
                   results, summary>>
    /\ UNCHANGED <<checkVars, loadVars>>

\* lines 201-253: the recommended profile and the summary
Summarize ==
    /\ apc = "merge"
    /\ mi > Len(results)
    /\ summary' = Some(summary_of(json, all_usage, active_count,
                                  all_total_tokens, all_total_cost))
    /\ apc' = "done"
    /\ UNCHANGED <<json, dir_listing, profiles, wstate, slots, finished, results, mi,
                   all_usage, all_total_tokens, all_total_cost, active_count>>
    /\ UNCHANGED <<checkVars, loadVars>>

NextAll ==
    \/ ListProfiles
    \/ \E i \in 1..Len(profiles) : WorkerStart(i)
    \/ \E i \in 1..Len(profiles) : WorkerFinish(i)
    \/ Collect
    \/ MergeStep
    \/ Summarize

SpecAll == InitAll /\ [][NextAll]_vars

----------------------------------------------------------------------------
(* parser.rs: load_usage_entries *)

\* The names of the .jsonl files, in the order WalkDir yields them.
FileNames == <<"a.jsonl", "b.jsonl">>

\* A line of a file: whether BufRead::lines could read it (no I/O error, valid
\* UTF-8), whether it is blank, and what serde_json makes of it: None when
\* from_str fails, else the RawUsageEntry, whose timestamp is None when
\* parse_from_rfc3339 fails. Every line carries costUSD; the price table of
\* models.rs, used for a line without it, is not modelled.
RawLine(ts, model, message_model, k) ==
    [read_ok |-> TRUE, blank |-> FALSE,
     json |-> Some([timestamp |-> ts, model |-> model,
                    message_model |-> message_model,
                    input_tokens |-> k.input_tokens,
                    output_tokens |-> k.output_tokens,
                    cache_creation_input_tokens |-> k.cache_creation_tokens,
                    cache_read_input_tokens |-> k.cache_read_tokens,
                    cost_usd |-> Some(k.cost)])]

SonnetKind == CHOOSE k \in EntryKinds : k.model = "claude-3-5-sonnet"
OpusKind == CHOOSE k \in EntryKinds : k.model = "claude-3-opus"

UnreadableLine == [read_ok |-> FALSE, blank |-> FALSE, json |-> None]
BlankLine == [read_ok |-> TRUE, blank |-> TRUE, json |-> None]
BadJsonLine == [read_ok |-> TRUE, blank |-> FALSE, json |-> None]
BadTimestampLine == RawLine(None, Some("claude-3-5-sonnet"), None, SonnetKind)
NoModelLine == RawLine(Some(At(10, 35, 45, 500)), None, None, SonnetKind)
UnknownModelLine == RawLine(Some(At(10, 35, 45, 500)), Some("unknown"), None, SonnetKind)
EmptyModelLine ==
    RawLine(Some(At(10, 35, 45, 500)), Some(""), Some("claude-3-opus"), OpusKind)
LateSonnetLine == RawLine(Some(At(15, 1, 0, 0)), Some("claude-3-5-sonnet"), None, SonnetKind)
EarlyOpusLine == RawLine(Some(At(10, 0, 0, 0)), None, Some("claude-3-opus"), OpusKind)

Lines ==
    { UnreadableLine, BlankLine, BadJsonLine, BadTimestampLine, NoModelLine,
      UnknownModelLine, EmptyModelLine, LateSonnetLine, EarlyOpusLine }

\* Result<Option<UsageEntry>> of parse_jsonl_line
ParseErr == [err |-> TRUE, entry |-> None]
ParseOk(o) == [err |-> FALSE, entry |-> o]

\* lines 69-110
parse_jsonl_line(line) ==
    IF line.json = None THEN ParseErr
    ELSE LET raw == Unwrap(line.json) IN
         IF raw.timestamp = None THEN ParseErr
         ELSE LET model == IF IsSome(raw.model) THEN Unwrap(raw.model)
                           ELSE IF IsSome(raw.message_model)
                                THEN Unwrap(raw.message_model)
                                ELSE "unknown"
              IN  IF model = "unknown" \/ model = ""
                  THEN ParseOk(None)
                  ELSE ParseOk(Some(
                      [timestamp |-> Unwrap(raw.timestamp),
                       input_tokens |-> raw.input_tokens,
                       output_tokens |-> raw.output_tokens,
                       cache_creation_tokens |-> raw.cache_creation_input_tokens,
                       cache_read_tokens |-> raw.cache_read_input_tokens,
                       total_tokens |-> raw.input_tokens + raw.output_tokens
                                        + raw.cache_creation_input_tokens
                                        + raw.cache_read_input_tokens,
                       cost |-> Unwrap(raw.cost_usd),
                       model |-> model]))

\* lines 43-62: the loop over the lines of a file; a line that cannot be read
\* ends load_jsonl_file with Err, a line that cannot be parsed is skipped
RECURSIVE read_lines(_, _)
read_lines(ls, acc) ==
    IF ls = <<>> THEN Ok(acc)
    ELSE IF ~ls[1].read_ok THEN Err
    ELSE IF ls[1].blank THEN read_lines(Tail(ls), acc)
    ELSE LET r == parse_jsonl_line(ls[1]) IN
         IF ~r.err /\ IsSome(r.entry)
         THEN read_lines(Tail(ls), Append(acc, Unwrap(r.entry)))
         ELSE read_lines(Tail(ls), acc)

\* the same loop with the parse error propagated
RECURSIVE read_lines_strict(_, _)
read_lines_strict(ls, acc) ==
    IF ls = <<>> THEN Ok(acc)
    ELSE IF ~ls[1].read_ok THEN Err
    ELSE IF ls[1].blank THEN read_lines_strict(Tail(ls), acc)
    ELSE LET r == parse_jsonl_line(ls[1]) IN
         IF r.err THEN Err
         ELSE IF IsSome(r.entry)
              THEN read_lines_strict(Tail(ls), Append(acc, Unwrap(r.entry)))
              ELSE read_lines_strict(Tail(ls), acc)

\* lines 38-65
load_jsonl_file_strict(file) ==
    IF ~file.openable THEN Err ELSE read_lines_strict(file.lines, <<>>)

load_jsonl_file(file) ==
    IF ~file.openable THEN Err ELSE read_lines(file.lines, <<>>)

\* lines 25-29: filter_map(.ok()).flatten().collect(), in the order of the files
RECURSIVE collect_entries(_)
collect_entries(rs) ==
    IF rs = <<>> THEN <<>>
    ELSE (IF is_ok(rs[1]) THEN Unwrap(rs[1]) ELSE <<>>) \o collect_entries(Tail(rs))

\* At most MaxLines lines in all, shared out between the two files.
SplitAt(all, cut) == <<SubSeq(all, 1, cut), SubSeq(all, cut + 1, Len(all))>>

InitLoad ==
    /\ loaded = <<>>
    /\ CheckIdle
    /\ AllIdle
    /\ \E all \in BoundedSeqs(Lines, MaxLines) :
       \E cut \in 0..Len(all) :
       \E openable \in [1..Len(FileNames) -> BOOLEAN] :
           files = [i \in 1..Len(FileNames) |->
                       [name |-> FileNames[i], openable |-> openable[i],
                        lines |-> SplitAt(all, cut)[i]]]
    /\ lpc = "workers"
    /\ fstate = [i \in 1..Len(FileNames) |-> "idle"]
    /\ fresults = [i \in 1..Len(FileNames) |-> Err]
    /\ load_out = None

\* lines 25-27: a rayon worker runs load_jsonl_file on file i
LoadFile(i) ==
    /\ lpc = "workers"
    /\ fstate[i] = "idle"
    /\ fresults' = [fresults EXCEPT ![i] = load_jsonl_file(files[i])]
    /\ fstate' = [fstate EXCEPT ![i] = "done"]
    /\ UNCHANGED <<files, lpc, load_out>>
    /\ UNCHANGED <<checkVars, allVars>>

\* lines 28-34: collect, sort by timestamp, return
CollectAndSort ==
    /\ lpc = "workers"
    /\ \A i \in 1..Len(files) : fstate[i] = "done"
    /\ load_out' = Some(sort_by_timestamp(collect_entries(fresults)))
    /\ lpc' = "done"
    /\ UNCHANGED <<files, fstate, fresults>>
    /\ UNCHANGED <<checkVars, allVars>>

NextLoad ==
    \/ \E i \in 1..Len(files) : LoadFile(i)
    \/ CollectAndSort

SpecLoad == InitLoad /\ [][NextLoad]_vars

----------------------------------------------------------------------------
(* Properties *)

IsSorted(s) ==
    \A i, j \in 1..Len(s) : i < j => s[i].timestamp <= s[j].timestamp

\* identify_session_blocks has returned
Returned == pc \in {"returned", "burn", "result", "done"}

RECURSIVE Flatten(_)
Flatten(ss) == IF ss = <<>> THEN <<>> ELSE ss[1] \o Flatten(Tail(ss))

\* the sum of field f over the elements of s, from the last one down
RECURSIVE TotalOver(_, _, _)
TotalOver(s, f, n) == IF n = 0 THEN 0 ELSE TotalOver(s, f, n - 1) + s[n][f]

WINDOW_MS == 5 * 60 * 60 * 1000

\* C1: once identify_session_blocks has returned, for any input sequence,
\* the entry_count values of the blocks sum to the number of input entries,
\* and the blocks' members, in order, are the input entries, each exactly once.
C1_Partition ==
    Returned =>
        /\ TotalOver(blocks, "entry_count", Len(blocks)) = Len(entries)
        /\ Len(members) = Len(blocks)
        /\ \A i \in 1..Len(blocks) : blocks[i].entry_count = Len(members[i])
        /\ Flatten(members) = entries

\* an unsorted input of three entries was split into several blocks
C1_Witness ==
    /\ pc = "returned"
    /\ caller = "direct"
    /\ Len(entries) = 3
    /\ ~IsSorted(entries)
    /\ Len(blocks) >= 2

\* C2: for a sorted input, every block starts no earlier than the block
\* before it and no earlier than the end of that block's window.
C2_OrderedDisjoint ==
    IsSorted(entries) =>
        \A i \in 1..(Len(blocks) - 1) :
            /\ blocks[i].start_time <= blocks[i + 1].start_time
            /\ ~(/\ blocks[i].start_time <= blocks[i + 1].start_time
                 /\ blocks[i + 1].start_time < blocks[i].end_time)

\* three blocks from a sorted input, the second starting where the first ends
C2_Witness ==
    /\ Returned
    /\ IsSorted(entries)
    /\ Len(blocks) = 3
    /\ blocks[2].start_time = blocks[1].end_time

\* C3: for a sorted input, every entry of a block, closed or still open, has
\* a timestamp in [start_time, start_time + 5 hours).
C3_WindowMembership ==
    IsSorted(entries) =>
        /\ \A i \in 1..Len(blocks) : \A k \in 1..Len(members[i]) :
               /\ blocks[i].start_time <= members[i][k].timestamp
               /\ members[i][k].timestamp < blocks[i].start_time + WINDOW_MS
        /\ IsSome(current_block_start) =>
               \A k \in 1..Len(current_block_entries) :
                   /\ Unwrap(current_block_start) <= current_block_entries[k].timestamp
                   /\ current_block_entries[k].timestamp
                          < Unwrap(current_block_start) + WINDOW_MS

\* a block holds an entry of the last millisecond of its window, and the
\* entry exactly five hours after the start went to the next block
C3_Witness ==
    /\ Returned
    /\ IsSorted(entries)
    /\ Len(blocks) = 2
    /\ \E k \in 1..Len(members[1]) :
           members[1][k].timestamp = blocks[1].start_time + WINDOW_MS - 1
    /\ members[2][1].timestamp = blocks[1].start_time + WINDOW_MS

\* C4: every block starts at the top of the hour of the entry that opened
\* it (same date and hour; minute, second and sub-second zero) and ends
\* five hours after its start.
C4_Anchoring ==
    \A i \in 1..Len(blocks) :
        /\ minute(blocks[i].start_time) = 0
        /\ second(blocks[i].start_time) = 0
        /\ subsec(blocks[i].start_time) = 0
        /\ hour_index(blocks[i].start_time) = hour_index(members[i][1].timestamp)
        /\ blocks[i].end_time = blocks[i].start_time + WINDOW_MS

\* a block opened by the entry of 10:35:45.500 starts at 10:00:00.000
C4_Witness ==
    \E i \in 1..Len(blocks) :
        /\ members[i][1].timestamp = At(10, 35, 45, 500)
        /\ blocks[i].start_time = At(10, 0, 0, 0)

\* C5: in a loop iteration with a block open, the entry joins the block iff
\* its timestamp is less than five hours after the block's start; otherwise
\* the block is closed with the entries it had, and a new block is opened at
\* the entry's floored hour, holding that entry alone.
C5_Step ==
    (pc = "loop" /\ idx <= Len(entries) /\ IsSome(current_block_start)
        /\ idx' = idx + 1) =>
        LET entry == entries[idx]
            start == Unwrap(current_block_start)
            joined ==
                /\ current_block_entries' = Append(current_block_entries, entry)
                /\ current_block_start' = current_block_start
                /\ blocks' = blocks
            reopened ==
                /\ Len(blocks') = Len(blocks) + 1
                /\ blocks'[Len(blocks')].start_time = start
                /\ members'[Len(blocks')] = current_block_entries
                /\ current_block_start' =
                       Some(hour_index(entry.timestamp) * MS_PER_HOUR)
                /\ current_block_entries' = <<entry>>
        IN  /\ (entry.timestamp - start < WINDOW_MS) <=> joined
            /\ (entry.timestamp - start >= WINDOW_MS) => reopened

C5_JoinRule == [][C5_Step]_vars

\* an entry almost five hours after the previous one joined the block, and
\* the entry exactly five hours after the block's start opened the next one
C5_Witness ==
    /\ pc = "loop"
    /\ Len(blocks) = 1
    /\ Len(members[1]) = 2
    /\ members[1][2].timestamp - members[1][1].timestamp > 4 * MS_PER_HOUR
    /\ current_block_start = Some(blocks[1].start_time + WINDOW_MS)
    /\ Len(current_block_entries) = 1
    /\ current_block_entries[1].timestamp = blocks[1].start_time + WINDOW_MS

\* the window of block b holds the instant identify_session_blocks read
ContainsNow(b) ==
    /\ IsSome(now)
    /\ b.start_time <= Unwrap(now)
    /\ Unwrap(now) < b.start_time + WINDOW_MS

\* C6: for a sorted input at most one block is active, the active blocks are
\* those whose window holds now, and check_profile selects the block whose
\* window holds now wherever it stands in the list, or no block when no
\* window holds now.
C6_SingleActive ==
    IsSorted(entries) =>
        /\ Cardinality({ i \in 1..Len(blocks) : blocks[i].is_active }) <= 1
        /\ \A i \in 1..Len(blocks) : blocks[i].is_active <=> ContainsNow(blocks[i])
        /\ (caller = "check_profile" /\ pc \in {"burn", "result", "done"}) =>
               IF \E i \in 1..Len(blocks) : ContainsNow(blocks[i])
               THEN /\ IsSome(active_block)
                    /\ \E i \in 1..Len(blocks) :
                           /\ ContainsNow(blocks[i])
                           /\ [Unwrap(active_block) EXCEPT !.burn_rate = None] = blocks[i]
               ELSE active_block = None
        /\ (caller = "check_profile" /\ pc = "done") =>
               /\ IsSome(usage)
               /\ Unwrap(usage).active_block = active_block

\* check_profile selected an active block that is not the last block
C6_Witness ==
    /\ pc = "burn"
    /\ Len(blocks) >= 2
    /\ blocks[1].is_active
    /\ IsSome(active_block)
    /\ Unwrap(active_block) = blocks[1]

\* C7: the four token counters of a block are the sums of the same fields
\* of its entries, total_tokens is the sum of the four counters of the
\* block, and entry_count is the number of its entries.
C7_Aggregation ==
    \A i \in 1..Len(blocks) :
        LET b == blocks[i]
            m == members[i]
        IN  /\ b.input_tokens = TotalOver(m, "input_tokens", Len(m))
            /\ b.output_tokens = TotalOver(m, "output_tokens", Len(m))
            /\ b.cache_creation_tokens = TotalOver(m, "cache_creation_tokens", Len(m))
            /\ b.cache_read_tokens = TotalOver(m, "cache_read_tokens", Len(m))
            /\ b.total_tokens = b.input_tokens + b.output_tokens
                                + b.cache_creation_tokens + b.cache_read_tokens
            /\ b.entry_count = Len(m)

\* a block of two identical entries whose own total_tokens is not the sum of
\* their counters: both are summed, and the entries' total_tokens is ignored
C7_Witness ==
    \E i \in 1..Len(blocks) :
        /\ Len(members[i]) = 2
        /\ members[i][1] = members[i][2]
        /\ members[i][1].total_tokens # members[i][1].input_tokens
               + members[i][1].output_tokens + members[i][1].cache_creation_tokens
               + members[i][1].cache_read_tokens
        /\ blocks[i].total_tokens = 1200
        /\ blocks[i].total_tokens # TotalOver(members[i], "total_tokens", 2)

\* check_profile is past its burn-rate step with an active block
Projected == pc \in {"result", "done"} /\ IsSome(active_block)

\* whole minutes from the active block's start to check_profile's now
WholeMinutes == (Unwrap(now_check) - Unwrap(active_block).start_time) \div 60000

C9_Projection ==
    (Projected /\ IsSome(Unwrap(active_block).burn_rate)) =>
        LET total == Unwrap(active_block).total_tokens
            br == Unwrap(Unwrap(active_block).burn_rate)
            remaining == 300 - WholeMinutes
        IN  /\ br.elapsed_minutes = WholeMinutes
            /\ br.tokens_per_minute * WholeMinutes <= total
            /\ total < (br.tokens_per_minute + 1) * WholeMinutes
            /\ remaining > 0 =>
                   br.projected_tokens = total + br.tokens_per_minute * remaining
            /\ remaining <= 0 => br.projected_tokens = total
            /\ br.projected_tokens >= total

\* a BurnRate with a positive rate computed after the window's 300 minutes
C9_Witness ==
    /\ Projected
    /\ IsSome(Unwrap(active_block).burn_rate)
    /\ WholeMinutes > 300
    /\ Unwrap(Unwrap(active_block).burn_rate).tokens_per_minute > 0
    /\ Unwrap(Unwrap(active_block).burn_rate).projected_tokens
           = Unwrap(active_block).total_tokens

\* C10: an attached BurnRate has a time_until_limit iff tokens_per_minute > 0,
\* and then minutes is the integer quotient of max(0, budget - total_tokens)
\* by tokens_per_minute: never negative, and 0 when total_tokens >= budget.
C10_TimeUntilLimit ==
    (Projected /\ IsSome(Unwrap(active_block).burn_rate)) =>
        LET total == Unwrap(active_block).total_tokens
            br == Unwrap(Unwrap(active_block).burn_rate)
            left == IF CLAUDE_TOKEN_LIMIT - total > 0
                    THEN CLAUDE_TOKEN_LIMIT - total ELSE 0
        IN  /\ IsSome(br.time_until_limit) <=> br.tokens_per_minute > 0
            /\ IsSome(br.time_until_limit) =>
                   LET m == Unwrap(br.time_until_limit).minutes
                   IN  /\ m * br.tokens_per_minute <= left
                       /\ left < (m + 1) * br.tokens_per_minute
                       /\ m >= 0
                       /\ total >= CLAUDE_TOKEN_LIMIT => m = 0

\* a block over the budget with a positive rate: minutes is 0
C10_Witness ==
    /\ Projected
    /\ IsSome(Unwrap(active_block).burn_rate)
    /\ Unwrap(active_block).total_tokens > CLAUDE_TOKEN_LIMIT
    /\ IsSome(Unwrap(Unwrap(active_block).burn_rate).time_until_limit)
    /\ Unwrap(Unwrap(Unwrap(active_block).burn_rate).time_until_limit).minutes = 0

\* C11: activity and projection use one snapshot of now, so the window of
\* the block reported active holds the now the projection measures from,
\* and fewer than 300 whole minutes have elapsed since its start.
C11_SingleSnapshot ==
    (Projected /\ Unwrap(active_block).is_active) =>
        /\ Unwrap(active_block).start_time <= Unwrap(now_check)
        /\ Unwrap(now_check) < Unwrap(active_block).end_time
        /\ WholeMinutes < 300

\* C12: the blocks identify_session_blocks returns carry no BurnRate, and
\* the only block that may carry one is the block check_profile selected,
\* which is a block of the list flagged is_active, after its burn-rate step.
C12_BurnRateOnlyOnActive ==
    /\ \A i \in 1..Len(blocks) : blocks[i].burn_rate = None
    /\ IsSome(active_block) =>
           /\ Unwrap(active_block).is_active
           /\ \E i \in 1..Len(blocks) :
                  /\ blocks[i].is_active
                  /\ [Unwrap(active_block) EXCEPT !.burn_rate = None] = blocks[i]
           /\ IsSome(Unwrap(active_block).burn_rate) => pc \in {"result", "done"}
    /\ (pc = "done" /\ IsSome(usage) /\ IsSome(Unwrap(usage).active_block)) =>
           Unwrap(usage).active_block = active_block

\* of two blocks the active one was returned with a BurnRate, the other has none
C12_Witness ==
    /\ pc = "done"
    /\ Len(blocks) = 2
    /\ ~blocks[1].is_active
    /\ blocks[2].is_active
    /\ IsSome(Unwrap(usage).active_block)
    /\ IsSome(Unwrap(Unwrap(usage).active_block).burn_rate)
    /\ Unwrap(Unwrap(usage).active_block).start_time = blocks[2].start_time

\* C13: the burn-rate step never divides by zero and never fails: it divides
\* by the elapsed minutes only when they exceed 1 and by tokens_per_minute
\* only when it is positive; too little elapsed time leaves the BurnRate out,
\* a zero rate leaves time_until_limit out, and check_profile returns a usage.
C13_NeverFails ==
    /\ pc # "panicked"
    /\ \A k \in 1..Len(divisors) : divisors[k] # 0
    /\ Len(divisors) >= 1 => divisors[1] > 1
    /\ Len(divisors) >= 2 => divisors[2] > 0
    /\ Projected =>
           /\ Unwrap(active_block).burn_rate = None <=> divisors = <<>>
           /\ IsSome(Unwrap(active_block).burn_rate) =>
                  (Unwrap(Unwrap(active_block).burn_rate).time_until_limit = None
                      <=> Len(divisors) = 1)
    /\ pc = "done" => IsSome(usage)

\* a block whose rate truncates to zero: a BurnRate without time_until_limit
C13_Witness ==
    /\ pc = "done"
    /\ IsSome(active_block)
    /\ IsSome(Unwrap(active_block).burn_rate)
    /\ Unwrap(Unwrap(active_block).burn_rate).tokens_per_minute = 0
    /\ Unwrap(Unwrap(active_block).burn_rate).time_until_limit = None
    /\ divisors = <<Unwrap(Unwrap(active_block).burn_rate).elapsed_minutes>>
    /\ Unwrap(usage).minutes_until_limit = None

\* the workers of check_all_profiles have all returned
AllWorkersDone == \A i \in 1..Len(profiles) : wstate[i] = "done"

\* the counters and the list the merge loop builds
MergeState == <<all_usage, all_total_tokens, all_total_cost, active_count>>

\* C14 (states): while workers run the merge state is untouched; the
\* collected list has one result per profile, the one its worker returned, in
\* ascending profile-name order, whatever the order the workers finished in.
C14_State ==
    /\ apc = "workers" => MergeState = <<<<>>, 0, 0, 0>>
    /\ apc \in {"merge", "done"} =>
           /\ AllWorkersDone
           /\ Len(results) = Len(profiles)
           /\ \A i \in 1..Len(results) :
                  /\ results[i][1] = profiles[i]
                  /\ results[i][2] = slots[i]
                  /\ is_ok(results[i][2]) => Unwrap(results[i][2]).name = profiles[i]
           /\ \A i \in 1..(Len(results) - 1) : name_lt(results[i][1], results[i + 1][1])

\* C14 (steps): a worker's step changes the state and slot of that worker
\* only, and the merge state changes only in a step of the merge loop, taken
\* after every worker has returned.
C14_Step ==
    /\ (apc = "workers" /\ apc' = "workers") =>
           \A i, j \in 1..Len(profiles) :
               (i # j /\ wstate'[i] # wstate[i]) =>
                   (wstate'[j] = wstate[j] /\ slots'[j] = slots[j])
    /\ MergeState' # MergeState =>
           /\ apc = "merge"
           /\ AllWorkersDone
           /\ mi' = mi + 1

C14_MergeAfterWorkers == [](C14_State) /\ [][C14_Step]_vars

\* three workers finished in an order that is not the profile order, and the
\* results were collected in profile order
C14_Witness ==
    /\ apc = "merge"
    /\ Len(profiles) = 3
    /\ finished = <<3, 1, 2>>
    /\ \A i \in 1..3 : results[i] = <<profiles[i], slots[i]>>
    /\ is_ok(slots[1]) /\ ~is_ok(slots[2]) /\ is_ok(slots[3])

\* the profiles whose check returned a usage, those of them with an active
\* block, and those with a minutes_until_limit
CheckedOk == { i \in 1..Len(results) : is_ok(results[i][2]) }
WithActiveBlock ==
    { i \in CheckedOk : IsSome(Unwrap(results[i][2]).active_block) }
WithMinutes ==
    { i \in CheckedOk : IsSome(Unwrap(results[i][2]).minutes_until_limit) }

\* the sum of field f of the usages of the profiles of I among the first n
RECURSIVE UsageTotal(_, _, _)
UsageTotal(I, f, n) ==
    IF n = 0 THEN 0
    ELSE UsageTotal(I, f, n - 1)
             + (IF n \in I THEN Unwrap(results[n][2])[f] ELSE 0)

\* C16: in the finished report, total_tokens and total_cost are the sums over
\* the profiles with an active block, active_profiles counts those profiles
\* and total_profiles the profiles whose check returned a usage (a failed
\* check is in neither), active_profiles <= total_profiles, and a profile is
\* recommended iff some checked profile has a minutes_until_limit, its
\* minutes_until_limit being the largest of those.
C16_Summary ==
    apc = "done" =>
        LET sm == Unwrap(summary)
        IN  /\ sm.total_tokens = UsageTotal(WithActiveBlock, "total_tokens", Len(results))
            /\ sm.total_cost = UsageTotal(WithActiveBlock, "total_cost", Len(results))
            /\ sm.active_profiles = Cardinality(WithActiveBlock)
            /\ sm.total_profiles = Cardinality(CheckedOk)
            /\ sm.active_profiles <= sm.total_profiles
            /\ IsSome(sm.recommended_profile) <=> WithMinutes # {}
            /\ IsSome(sm.recommended_profile) =>
                   /\ \E i \in WithMinutes :
                          /\ Unwrap(sm.recommended_profile).name = results[i][1]
                          /\ Unwrap(sm.recommended_profile).minutes_until_limit
                                 = Unwrap(results[i][2]).minutes_until_limit
                   /\ \A i \in WithMinutes :
                          Unwrap(Unwrap(results[i][2]).minutes_until_limit)
                              <= Unwrap(Unwrap(sm.recommended_profile).minutes_until_limit)

\* three profiles: one over the budget (0 minutes left), one whose check
\* failed, one with 425 minutes left, which is the recommended one
C16_Witness ==
    /\ apc = "done"
    /\ Len(results) = 3
    /\ is_ok(results[1][2])
    /\ Unwrap(results[1][2]).minutes_until_limit = Some(0)
    /\ ~is_ok(results[2][2])
    /\ is_ok(results[3][2])
    /\ Unwrap(results[3][2]).minutes_until_limit = Some(425)
    /\ Unwrap(summary).total_profiles = 2
    /\ Unwrap(summary).active_profiles = 2
    /\ Unwrap(summary).total_tokens = 1350
    /\ Unwrap(Unwrap(summary).recommended_profile).name = profiles[3]

\* The model a line names: the top-level field, else the one of the message.
NamedModel(l) ==
    LET raw == Unwrap(l.json)
    IN  IF IsSome(raw.model) THEN raw.model ELSE raw.message_model

\* A line that is a well-formed record with a usable model.
WellFormed(l) ==
    /\ l.read_ok
    /\ ~l.blank
    /\ IsSome(l.json)
    /\ IsSome(Unwrap(l.json).timestamp)
    /\ IsSome(NamedModel(l))
    /\ Unwrap(NamedModel(l)) \notin {"", "unknown"}

\* A file that opens and whose every line can be read.
Readable(f) == f.openable /\ \A k \in 1..Len(f.lines) : f.lines[k].read_ok

\* The lines of readable files that are well-formed records of model m at time t.
RecordsOf(t, m) ==
    { p \in { <<i, k>> : i \in 1..Len(files), k \in 1..MaxLines } :
        /\ Readable(files[p[1]])
        /\ p[2] <= Len(files[p[1]].lines)
        /\ WellFormed(files[p[1]].lines[p[2]])
        /\ Unwrap(Unwrap(files[p[1]].lines[p[2]].json).timestamp) = t
        /\ Unwrap(NamedModel(files[p[1]].lines[p[2]])) = m }

\* The returned entries of model m at time t.
EntriesOf(t, m) ==
    { n \in 1..Len(Unwrap(load_out)) :
        /\ Unwrap(load_out)[n].timestamp = t
        /\ Unwrap(load_out)[n].model = m }

====
